---- MODULE Spec2Model ----
(***************************************************************************)
(* Model of src/main.py: a Streamlit page that validates a date range,     *)
(* fetches a price history through a TTL-memoized get_stock_data, derives  *)
(* statistics and moving averages, and presents a table and a CSV export.  *)
(* One run of the script is a render cycle; pc is the position in it.      *)
(***************************************************************************)
EXTENDS Integers, Sequences, FiniteSets, TLC

\* ------------------------------------------------------------------------
\* Bounds of the model
\* ------------------------------------------------------------------------
\* seconds that pass in one Tick
TickStep == 150
\* longest generated close series of the SpecPipeline pool
MaxRows == 2
\* length of the long series of the SpecPipeline pool (reaches the MA25 window)
LongRows == 26

\* ------------------------------------------------------------------------
\* Program constants
\* ------------------------------------------------------------------------
\* @st.cache_data(ttl=300)
ttl == 300
\* rolling(window=5), rolling(window=25)
MA5Window == 5
MA25Window == 25
\* .round(2), f"{x:.2f}"
Decimals == 2

\* ------------------------------------------------------------------------
\* Numbers: a pandas/Python float is an exact rational in lowest terms, or NaN
\* ------------------------------------------------------------------------
Abs(n) == IF n < 0 THEN -n ELSE n

RECURSIVE GCD(_, _)
GCD(a, b) == IF b = 0 THEN a ELSE GCD(b, a % b)

NaN == [nan |-> TRUE, num |-> 0, den |-> 1]

Rat(n, d) ==
    LET s == IF d < 0 THEN -1 ELSE 1
        g == GCD(Abs(n), Abs(d))
    IN  [nan |-> FALSE, num |-> (s * n) \div g, den |-> (s * d) \div g]

Zero == Rat(0, 1)

RatAdd(a, b) ==
    IF a.nan \/ b.nan THEN NaN ELSE Rat(a.num * b.den + b.num * a.den, a.den * b.den)

RatSub(a, b) ==
    IF a.nan \/ b.nan THEN NaN ELSE Rat(a.num * b.den - b.num * a.den, a.den * b.den)

\* closes are prices, so the divisor is never 0 in the inputs drawn here
RatDiv(a, b) ==
    IF a.nan \/ b.nan THEN NaN ELSE Rat(a.num * b.den, a.den * b.num)

RatMulInt(a, k) == IF a.nan THEN NaN ELSE Rat(a.num * k, a.den)

RatDivInt(a, k) == IF a.nan THEN NaN ELSE Rat(a.num, a.den * k)

RECURSIVE RatSum(_)
RatSum(s) == IF s = <<>> THEN Zero ELSE RatAdd(Head(s), RatSum(Tail(s)))

RECURSIVE Pow10(_)
Pow10(k) == IF k = 0 THEN 1 ELSE 10 * Pow10(k - 1)

\* round(v, k): nearest multiple of 10^-k, ties to the even one
round(v, k) ==
    IF v.nan THEN NaN
    ELSE LET n == v.num * Pow10(k)
             f == n \div v.den
             r == n - f * v.den
             up == \/ 2 * r > v.den
                   \/ (2 * r = v.den /\ f % 2 = 1)
         IN  Rat(IF up THEN f + 1 ELSE f, Pow10(k))

\* ------------------------------------------------------------------------
\* Text: a str is a sequence of characters or of literal pieces
\* ------------------------------------------------------------------------
upper_char(c) == IF c = "a" THEN "A" ELSE IF c = "t" THEN "T" ELSE c

\* str.upper()
upper(s) == [i \in 1..Len(s) |-> upper_char(s[i])]

is_space(c) == c = " "

RECURSIVE lstrip(_)
lstrip(s) == IF s # <<>> /\ is_space(Head(s)) THEN lstrip(Tail(s)) ELSE s

RECURSIVE rstrip(_)
rstrip(s) ==
    IF s # <<>> /\ is_space(s[Len(s)]) THEN rstrip(SubSeq(s, 1, Len(s) - 1)) ELSE s

strip_identity(s) == s

\* str.strip()
strip(s) == rstrip(lstrip(s))

\* str(date): ISO format; a date is a day of January 2023
isoformat(d) == <<"2023-01-" \o (IF d < 10 THEN "0" ELSE "") \o ToString(d)>>

\* Python objects carry a type tag
None == [type |-> "NoneType", text |-> <<>>]
Str(t) == [type |-> "str", text |-> t]
isinstance_str(v) == v.type = "str"

\* ------------------------------------------------------------------------
\* pandas DataFrame: an object identity, the column order, the date index and
\* one series per column.  An in-place operation keeps the identity (oid);
\* an operation that returns a new frame gives a new one.
\* ------------------------------------------------------------------------
NoFrame ==
    [type |-> "NoneType", oid |-> "None", columns |-> <<>>, index |-> <<>>,
     values |-> [c \in {} |-> <<>>]]

is_None(df) == df.type = "NoneType"

Range(s) == {s[i] : i \in 1..Len(s)}

len(df) == Len(df.index)

\* df.empty
empty(df) == Len(df.index) = 0

RECURSIVE SelectCols(_, _)
SelectCols(cols, drop) ==
    IF cols = <<>> THEN <<>>
    ELSE IF Head(cols) \in drop THEN SelectCols(Tail(cols), drop)
         ELSE <<Head(cols)>> \o SelectCols(Tail(cols), drop)

\* df.copy(): a new object with the same content
df_copy(df) == [df EXCEPT !.oid = "copy"]

\* df.drop(columns=...): a new object without the named columns
df_drop(df, drop) ==
    [df EXCEPT !.oid = "dropped",
               !.columns = SelectCols(df.columns, drop),
               !.values = [c \in Range(df.columns) \ drop |-> df.values[c]]]

\* df[c] = series: in place; a new column goes last, an existing one is replaced
df_setitem(df, c, series) ==
    [df EXCEPT !.columns = IF c \in Range(df.columns) THEN df.columns
                           ELSE Append(df.columns, c),
               !.values = [k \in Range(df.columns) \cup {c} |->
                              IF k = c THEN series ELSE df.values[k]]]

\* display labels of lines 178-182 (romanised: the source has the Japanese
\* words for open, high, low, close, volume, 5-day MA, 25-day MA)
Labels ==
    [Open |-> "Hajimene", High |-> "Takane", Low |-> "Yasune",
     Close |-> "Owarine", Volume |-> "Dekidaka",
     MA5 |-> "5-nichi idou heikin", MA25 |-> "25-nichi idou heikin"]

label(c) == IF c \in DOMAIN Labels THEN Labels[c] ELSE c

\* df.rename(columns=Labels, inplace=True)
df_rename(df) ==
    [df EXCEPT !.columns = [i \in 1..Len(df.columns) |-> label(df.columns[i])],
               !.values = [k \in {label(c) : c \in Range(df.columns)} |->
                              df.values[CHOOSE c \in Range(df.columns) : label(c) = k]]]

\* numeric_columns of line 185
numeric_columns ==
    <<"Hajimene", "Takane", "Yasune", "Owarine",
      "5-nichi idou heikin", "25-nichi idou heikin">>

\* series.round(2)
series_round(s) == [i \in 1..Len(s) |-> round(s[i], Decimals)]

\* the loop of lines 186-188
RECURSIVE round_columns(_, _)
round_columns(df, cols) ==
    IF cols = <<>> THEN df
    ELSE round_columns(
            IF Head(cols) \in Range(df.columns)
            THEN df_setitem(df, Head(cols), series_round(df.values[Head(cols)]))
            ELSE df,
            Tail(cols))

\* position of row i once the rows are sorted by index, largest first
desc_rank(index, i) == Cardinality({j \in 1..Len(index) : index[j] > index[i]}) + 1

\* df.sort_index(ascending=False): a new object, rows by date descending
sort_index(df) ==
    LET n == Len(df.index)
        src(p) == CHOOSE i \in 1..n : desc_rank(df.index, i) = p
    IN  [df EXCEPT !.oid = "sorted",
                   !.index = [p \in 1..n |-> df.index[src(p)]],
                   !.values = [c \in Range(df.columns) |->
                                  [p \in 1..n |-> df.values[c][src(p)]]]]

rolling_mean_partial(s, window) ==
    [i \in 1..Len(s) |->
        LET lo == IF i > window THEN i - window + 1 ELSE 1
        IN  RatDivInt(RatSum(SubSeq(s, lo, i)), i - lo + 1)]

\* series.rolling(window=w).mean(): NaN until w values are in the window
rolling_mean(s, window) ==
    [i \in 1..Len(s) |->
        IF i < window THEN NaN
        ELSE RatDivInt(RatSum(SubSeq(s, i - window + 1, i)), window)]

\* df.to_csv(index=True).encode('utf-8-sig'): a byte-order mark, a header of
\* the index name and the columns, one line per row
to_csv(df) ==
    [bom |-> TRUE,
     header |-> <<"Date">> \o df.columns,
     dates |-> df.index,
     lines |-> [p \in 1..Len(df.index) |->
                   [k \in 1..Len(df.columns) |-> df.values[df.columns[k]][p]]]]

NoCsv == [bom |-> FALSE, header |-> <<>>, dates |-> <<>>, lines |-> <<>>]

\* ------------------------------------------------------------------------
\* The market-data provider (yfinance): opaque, so every behaviour of a call
\* is an input.  Prices are in thousandths.
\* ------------------------------------------------------------------------
OHLCV == <<"Open", "High", "Low", "Close", "Volume">>

cell(c, close, i) ==
    CASE c = "Open" -> Rat(close - 3, 1000)
      [] c = "High" -> Rat(close + 12, 1000)
      [] c = "Low" -> Rat(close - 17, 1000)
      [] c = "Close" -> Rat(close, 1000)
      [] c = "Adj Close" -> Rat(close - 1, 1000)
      [] c = "Volume" -> Rat(1000 * i, 1)
      [] OTHER -> Zero

MkFrame(cols, closes) ==
    [type |-> "DataFrame", oid |-> "history", columns |-> cols,
     index |-> [i \in 1..Len(closes) |-> i],
     values |-> [c \in Range(cols) |->
                    [i \in 1..Len(closes) |-> cell(c, closes[i], i)]]]

\* what stock.history(start=..., end=...) can do: raise, or return a frame
\* (an empty one for an unknown symbol or a period without trading days)
HistoryOutcomes ==
    { [raises |-> TRUE, text |-> <<"ConnectionError">>, frame |-> NoFrame],
      [raises |-> FALSE, text |-> <<>>, frame |-> MkFrame(OHLCV, <<>>)],
      [raises |-> FALSE, text |-> <<>>, frame |-> MkFrame(OHLCV, <<1004, 1015>>)] }

NoDict == [k \in {} |-> None]

\* what stock.info can do: raise, or return a dict that has a longName, only a
\* shortName, neither, or a longName of None
InfoOutcomes ==
    { [raises |-> TRUE, text |-> <<"HTTPError">>, dict |-> NoDict],
      [raises |-> FALSE, text |-> <<>>, dict |-> NoDict],
      [raises |-> FALSE, text |-> <<>>,
       dict |-> [k \in {"shortName"} |-> Str(<<"TOYOTA">>)]],
      [raises |-> FALSE, text |-> <<>>,
       dict |-> [k \in {"longName", "shortName"} |->
                    IF k = "longName" THEN Str(<<"Toyota Motor Corporation">>)
                    ELSE Str(<<"TOYOTA">>)]],
      [raises |-> FALSE, text |-> <<>>, dict |-> [k \in {"longName"} |-> None]] }

\* dict.get(key, default)
dict_get(d, k, default) == IF k \in DOMAIN d THEN d[k] ELSE default

\* the messages of lines 28 and 36 (in English)
NoDataMessage == <<"no data found; check the ticker and the period">>
FetchErrorPrefix == <<"data fetch error: ">>

\* get_stock_data with the company-info lookup outside the try block
get_stock_data_info_unguarded(ticker, hist, info) ==
    IF hist.raises
    THEN [data |-> NoFrame, result |-> Str(FetchErrorPrefix \o hist.text),
          history_calls |-> 1, info_calls |-> 0]
    ELSE IF empty(hist.frame)
    THEN [data |-> NoFrame, result |-> Str(NoDataMessage),
          history_calls |-> 1, info_calls |-> 0]
    ELSE [data |-> hist.frame,
          result |-> IF info.raises THEN Str(FetchErrorPrefix \o info.text)
                     ELSE dict_get(info.dict, "longName",
                                   dict_get(info.dict, "shortName", Str(ticker))),
          history_calls |-> 1, info_calls |-> 1]

\* the body of get_stock_data, lines 22-36, for one behaviour of the provider
get_stock_data(ticker, hist, info) ==
    IF hist.raises
    THEN [data |-> NoFrame, result |-> Str(FetchErrorPrefix \o hist.text),
          history_calls |-> 1, info_calls |-> 0]
    ELSE IF empty(hist.frame)
    THEN [data |-> NoFrame, result |-> Str(NoDataMessage),
          history_calls |-> 1, info_calls |-> 0]
    ELSE IF info.raises
    THEN [data |-> NoFrame, result |-> Str(FetchErrorPrefix \o info.text),
          history_calls |-> 1, info_calls |-> 1]
    ELSE [data |-> hist.frame,
          result |-> dict_get(info.dict, "longName",
                              dict_get(info.dict, "shortName", Str(ticker))),
          history_calls |-> 1, info_calls |-> 1]

\* ------------------------------------------------------------------------
\* st.cache_data(ttl=300): a dict from the call's arguments to the pickled
\* return value and its age.  A hit unpickles a fresh copy; an entry is gone
\* once its age reaches ttl.
\* ------------------------------------------------------------------------
NoCache == [k \in {} |-> [age |-> 0, data |-> NoFrame, result |-> None]]

cache_key(ticker, start, end) == <<ticker, start, end>>

cache_has(c, key) == key \in DOMAIN c /\ c[key].age < ttl

pickled(df) == IF is_None(df) THEN df ELSE [df EXCEPT !.oid = "cached"]

\* a hit that hands out the stored object itself, as st.cache_resource does
cache_resource_load(entry) == [data |-> entry.data, result |-> entry.result]

\* a hit: the stored bytes are unpickled into a new object
cache_data_load(entry) ==
    [data |-> IF is_None(entry.data) THEN entry.data
              ELSE [entry.data EXCEPT !.oid = "unpickled"],
     result |-> entry.result]

\* a store that keeps successful results only
cache_data_store_success_only(c, key, value) ==
    IF is_None(value.data) THEN c
    ELSE [k \in DOMAIN c \cup {key} |->
             IF k = key
             THEN [age |-> 0, data |-> pickled(value.data), result |-> value.result]
             ELSE c[k]]

\* a miss: the return value is pickled and stored under the key, age 0
cache_data_store(c, key, value) ==
    [k \in DOMAIN c \cup {key} |->
        IF k = key THEN [age |-> 0, data |-> pickled(value.data), result |-> value.result]
        ELSE c[k]]

\* time passes: every entry ages, the expired ones are dropped
cache_age(c) ==
    [k \in {j \in DOMAIN c : c[j].age + TickStep < ttl} |->
        [c[k] EXCEPT !.age = @ + TickStep]]

\* ------------------------------------------------------------------------
\* State
\* ------------------------------------------------------------------------
VARIABLES
    pc,                  \* position of the script run
    ticker_input,        \* text of the ticker box
    ticker_symbol,       \* line 43-47
    start_date,          \* line 63
    end_date,            \* line 65
    today,               \* line 58
    cache,               \* the store of st.cache_data
    data,                \* line 79
    result,              \* line 79
    company_name,        \* line 86
    latest_price,        \* line 92
    price_change,        \* line 93
    price_change_pct,    \* line 94
    display_data,        \* line 176
    display_data_sorted, \* line 191
    csv,                 \* line 197
    file_name,           \* line 201
    ui,                  \* the elements the run has put on the page, in order
    stopped,             \* st.stop() ended the run
    fetch_calls,         \* calls of get_stock_data in this run
    history_calls,       \* calls of stock.history in this run
    info_calls,          \* reads of stock.info in this run
    cache_hit,           \* the call of this run was served from the cache
    provider,            \* what the provider did in the call of this run
    fetched              \* per key, what the last provider call within ttl gave

vars ==
    <<pc, ticker_input, ticker_symbol, start_date, end_date, today, cache, data,
      result, company_name, latest_price, price_change, price_change_pct,
      display_data, display_data_sorted, csv, file_name, ui, stopped,
      fetch_calls, history_calls, info_calls, cache_hit, provider, fetched>>

inputs == <<ticker_input, ticker_symbol, start_date, end_date, today>>
stats == <<company_name, latest_price, price_change, price_change_pct>>
tables == <<display_data, display_data_sorted, csv, file_name>>
counters == <<fetch_calls, history_calls, info_calls, cache_hit, provider>>

NoProvider ==
    [called |-> FALSE,
     hist |-> [raises |-> FALSE, text |-> <<>>, frame |-> NoFrame],
     info |-> [raises |-> FALSE, text |-> <<>>, dict |-> NoDict]]

\* what the user can type and pick
TickerInputs == { <<>>, <<" ">>, <<"a">>, <<" ", "a", " ">>, <<"t">> }
Dates == {1, 2}
Todays == {1, 2}

widget(w, body) == [widget |-> w, body |-> body]
shown(w) == \E i \in 1..Len(ui) : ui[i].widget = w

ResetLocals ==
    /\ data' = NoFrame
    /\ result' = None
    /\ company_name' = None
    /\ latest_price' = NaN
    /\ price_change' = NaN
    /\ price_change_pct' = NaN
    /\ display_data' = NoFrame
    /\ display_data_sorted' = NoFrame
    /\ csv' = NoCsv
    /\ file_name' = <<>>
    /\ ui' = <<>>
    /\ stopped' = FALSE
    /\ fetch_calls' = 0
    /\ history_calls' = 0
    /\ info_calls' = 0
    /\ cache_hit' = FALSE
    /\ provider' = NoProvider

Init ==
    /\ pc = "idle"
    /\ ticker_input = <<>>
    /\ ticker_symbol = <<>>
    /\ start_date = 1
    /\ end_date = 1
    /\ today = 2
    /\ cache = NoCache
    /\ data = NoFrame
    /\ result = None
    /\ company_name = None
    /\ latest_price = NaN
    /\ price_change = NaN
    /\ price_change_pct = NaN
    /\ display_data = NoFrame
    /\ display_data_sorted = NoFrame
    /\ csv = NoCsv
    /\ file_name = <<>>
    /\ ui = <<>>
    /\ stopped = FALSE
    /\ fetch_calls = 0
    /\ history_calls = 0
    /\ info_calls = 0
    /\ cache_hit = FALSE
    /\ provider = NoProvider
    /\ fetched = NoCache

\* ------------------------------------------------------------------------
\* One run of the script
\* ------------------------------------------------------------------------
\* lines 9-65: a rerun starts from the top and reads the widgets
Rerun ==
    /\ pc \in {"idle", "done"}
    /\ \E raw \in TickerInputs, s \in Dates, e \in Dates, t \in Todays :
          /\ ticker_input' = raw
          /\ ticker_symbol' = strip(upper(raw))
          /\ start_date' = s
          /\ end_date' = e
          /\ today' = t
    /\ ResetLocals
    /\ pc' = "validate"
    /\ UNCHANGED <<cache, fetched>>

dates_invalid_strict(s, e) == s > e

\* line 68
dates_invalid(s, e) == s >= e

\* lines 67-70
ValidateDates ==
    /\ pc = "validate"
    /\ IF dates_invalid(start_date, end_date)
       THEN /\ ui' = Append(ui, widget("sidebar.error", <<"start must be before end">>))
            /\ stopped' = TRUE
            /\ pc' = "done"
       ELSE /\ pc' = "warn"
            /\ UNCHANGED <<ui, stopped>>
    /\ UNCHANGED <<inputs, cache, fetched, data, result, stats, tables, counters>>

\* lines 72-73
WarnFutureEnd ==
    /\ pc = "warn"
    /\ ui' = IF end_date > today
             THEN Append(ui, widget("sidebar.warning", <<"end date is in the future">>))
             ELSE ui
    /\ pc' = "main"
    /\ UNCHANGED <<inputs, cache, fetched, data, result, stats, tables, stopped, counters>>

\* line 76: a str is true when it is not empty
truthy(s) == s # <<>>

\* lines 76 and 209-233
MainBranch ==
    /\ pc = "main"
    /\ IF truthy(ticker_symbol)
       THEN /\ pc' = "fetch"
            /\ UNCHANGED ui
       ELSE /\ ui' = ui \o <<widget("info", <<"enter a ticker in the sidebar">>),
                             widget("markdown", <<"usage">>)>>
            /\ pc' = "done"
    /\ UNCHANGED <<inputs, cache, fetched, data, result, stats, tables, stopped, counters>>

\* lines 19-20 and 78-79: the memoized call
GetStockData ==
    /\ pc = "fetch"
    /\ LET key == cache_key(ticker_symbol, start_date, end_date)
       IN  IF cache_has(cache, key)
           THEN /\ data' = cache_data_load(cache[key]).data
                /\ result' = cache_data_load(cache[key]).result
                /\ cache_hit' = TRUE
                /\ UNCHANGED <<cache, history_calls, info_calls, provider, fetched>>
           ELSE \E hist \in HistoryOutcomes, info \in InfoOutcomes :
                   LET r == get_stock_data(ticker_symbol, hist, info)
                   IN  /\ data' = r.data
                       /\ result' = r.result
                       /\ cache' = cache_data_store(cache, key, r)
                       /\ history_calls' = history_calls + r.history_calls
                       /\ info_calls' = info_calls + r.info_calls
                       /\ cache_hit' = FALSE
                       /\ provider' = [called |-> TRUE, hist |-> hist, info |-> info]
                       /\ fetched' = [k \in DOMAIN fetched \cup {key} |->
                                         IF k = key
                                         THEN [age |-> 0, data |-> r.data, result |-> r.result]
                                         ELSE fetched[k]]
    /\ fetch_calls' = fetch_calls + 1
    /\ pc' = "branch"
    /\ UNCHANGED <<inputs, stats, tables, ui, stopped>>

\* the error branch followed by another attempt
FetchError_retry ==
    /\ pc = "branch"
    /\ is_None(data)
    /\ ui' = ui \o <<widget("error", result.text),
                     widget("info", <<"check the ticker format">>)>>
    /\ pc' = "fetch"
    /\ UNCHANGED <<inputs, cache, fetched, data, result, stats, tables, stopped, counters>>

\* lines 81-83
FetchError ==
    /\ pc = "branch"
    /\ is_None(data)
    /\ ui' = ui \o <<widget("error", result.text),
                     widget("info", <<"check the ticker format">>)>>
    /\ pc' = "done"
    /\ UNCHANGED <<inputs, cache, fetched, data, result, stats, tables, stopped, counters>>

\* series.iloc[-k]
iloc_back(s, k) == s[Len(s) - k + 1]

\* line 93
calc_price_change(df) ==
    IF len(df) > 1
    THEN RatSub(iloc_back(df.values["Close"], 1), iloc_back(df.values["Close"], 2))
    ELSE Zero

calc_price_change_pct_last(df, change) ==
    IF len(df) > 1
    THEN RatMulInt(RatDiv(change, iloc_back(df.values["Close"], 1)), 100)
    ELSE Zero

\* line 94
calc_price_change_pct(df, change) ==
    IF len(df) > 1
    THEN RatMulInt(RatDiv(change, iloc_back(df.values["Close"], 2)), 100)
    ELSE Zero

\* lines 84-105: header and the four metrics
HeaderAndMetrics ==
    /\ pc = "branch"
    /\ ~is_None(data)
    /\ company_name' = IF isinstance_str(result) THEN result ELSE Str(ticker_symbol)
    /\ latest_price' = iloc_back(data.values["Close"], 1)
    /\ price_change' = calc_price_change(data)
    /\ price_change_pct' = calc_price_change_pct(data, calc_price_change(data))
    /\ ui' = ui \o <<widget("header", company_name'.text \o <<" (">> \o ticker_symbol \o <<")">>),
                     widget("metric", <<"latest price">>),
                     widget("metric", <<"change rate">>),
                     widget("metric", <<"period high">>),
                     widget("metric", <<"period low">>)>>
    /\ pc' = "chart"
    /\ UNCHANGED <<inputs, cache, fetched, data, result, tables, stopped, counters>>

\* lines 107-149: candlestick and volume chart
CandlestickChart ==
    /\ pc = "chart"
    /\ ui' = Append(ui, widget("plotly_chart", <<"candlestick", "volume">>))
    /\ pc' = "ma"
    /\ UNCHANGED <<inputs, cache, fetched, data, result, stats, tables, stopped, counters>>

\* lines 155-156: the two column assignments, in place on data
add_moving_averages(df) ==
    LET d5 == df_setitem(df, "MA5", rolling_mean(df.values["Close"], MA5Window))
    IN  df_setitem(d5, "MA25", rolling_mean(d5.values["Close"], MA25Window))

\* lines 151-170: moving averages and their chart.  data is changed in place:
\* were it the object the cache holds, the cache would see the change.
MovingAverages ==
    /\ pc = "ma"
    /\ data' = add_moving_averages(data)
    /\ LET key == cache_key(ticker_symbol, start_date, end_date)
       IN  cache' = IF data.oid = "cached" /\ key \in DOMAIN cache
                    THEN [cache EXCEPT ![key].data = data']
                    ELSE cache
    /\ ui' = Append(ui, widget("plotly_chart", <<"close", "MA5", "MA25">>))
    /\ pc' = "table"
    /\ UNCHANGED <<inputs, fetched, result, stats, tables, stopped, counters>>

adj_close(df) == IF "Adj Close" \in Range(df.columns) THEN {"Adj Close"} ELSE {}

make_display_data_inplace(df) == [df_drop(df, adj_close(df)) EXCEPT !.oid = df.oid]

\* lines 176-177: a copy of data, without the adjusted close
make_display_data(df) == df_drop(df_copy(df), adj_close(df))

\* lines 178-188: rename and round, in place on display_data
format_display_data(df) == round_columns(df_rename(df), numeric_columns)

\* lines 172-192: the table.  display_data is changed in place: were it the
\* object data names, data would see the change.
DataTable ==
    /\ pc = "table"
    /\ LET d0 == make_display_data(data)
           d == format_display_data(d0)
       IN  /\ display_data' = d
           /\ display_data_sorted' = sort_index(d)
           /\ data' = IF d0.oid = data.oid THEN d ELSE data
    /\ csv' = csv
    /\ file_name' = file_name
    /\ ui' = Append(ui, widget("dataframe", <<"display_data_sorted">>))
    /\ pc' = "download"
    /\ UNCHANGED <<inputs, cache, fetched, result, stats, stopped, counters>>

\* line 201
make_file_name(ticker, start, end) ==
    ticker \o <<"_">> \o isoformat(start) \o <<"_to_">> \o isoformat(end) \o <<".csv">>

\* lines 194-207: the download button and the period note
Download ==
    /\ pc = "download"
    /\ csv' = to_csv(display_data_sorted)
    /\ file_name' = make_file_name(ticker_symbol, start_date, end_date)
    /\ ui' = ui \o <<widget("download_button", file_name'),
                     widget("info", <<"data period">>)>>
    /\ pc' = "done"
    /\ UNCHANGED <<inputs, cache, fetched, data, result, stats, display_data,
                   display_data_sorted, stopped, counters>>

\* time passes between and during runs; the cache's entries age and expire
Tick ==
    /\ cache # NoCache \/ fetched # NoCache
    /\ cache' = cache_age(cache)
    /\ fetched' = cache_age(fetched)
    /\ UNCHANGED <<pc, inputs, data, result, stats, tables, ui, stopped, counters>>

Next ==
    \/ Rerun
    \/ ValidateDates
    \/ WarnFutureEnd
    \/ MainBranch
    \/ GetStockData
    \/ FetchError
    \/ HeaderAndMetrics
    \/ CandlestickChart
    \/ MovingAverages
    \/ DataTable
    \/ Download
    \/ Tick

Spec == Init /\ [][Next]_vars

\* ------------------------------------------------------------------------
\* The stages after a successful fetch, over a wider pool of price series
\* ------------------------------------------------------------------------
CloseValues == {1004, 1016, 2027}

RECURSIVE SeqsUpTo(_, _)
SeqsUpTo(S, n) ==
    IF n = 0 THEN {<<>>}
    ELSE LET shorter == SeqsUpTo(S, n - 1)
         IN  shorter \cup {Append(q, x) : q \in {r \in shorter : Len(r) = n - 1}, x \in S}

\* the closes of the scenario of the specification, 100 102 101 105 107
ExampleCloses == <<100000, 102000, 101000, 105000, 107000>>

LongCloses == [i \in 1..LongRows |-> 1000 + 7 * i + 13 * (i % 3)]

ClosesPool == (SeqsUpTo(CloseValues, MaxRows) \ {<<>>}) \cup {ExampleCloses, LongCloses}

\* the columns history() can return: the five prices and volume, with an
\* adjusted close, or with the corporate-action columns
ColumnsPool ==
    { OHLCV,
      <<"Open", "High", "Low", "Close", "Adj Close", "Volume">>,
      OHLCV \o <<"Dividends", "Stock Splits">> }

FramePool == {MkFrame(cols, closes) : cols \in ColumnsPool, closes \in ClosesPool}

InitPipeline ==
    /\ pc = "branch"
    /\ ticker_input = <<"a">>
    /\ ticker_symbol = <<"A">>
    /\ start_date \in Dates
    /\ end_date \in Dates
    /\ start_date < end_date
    /\ today = 2
    /\ cache = NoCache
    /\ data \in FramePool
    /\ result \in {Str(<<"Toyota Motor Corporation">>), None}
    /\ company_name = None
    /\ latest_price = NaN
    /\ price_change = NaN
    /\ price_change_pct = NaN
    /\ display_data = NoFrame
    /\ display_data_sorted = NoFrame
    /\ csv = NoCsv
    /\ file_name = <<>>
    /\ ui = <<>>
    /\ stopped = FALSE
    /\ fetch_calls = 1
    /\ history_calls = 1
    /\ info_calls = 1
    /\ cache_hit = FALSE
    /\ provider = NoProvider
    /\ fetched = NoCache

NextPipeline ==
    \/ HeaderAndMetrics
    \/ CandlestickChart
    \/ MovingAverages
    \/ DataTable
    \/ Download

SpecPipeline == InitPipeline /\ [][NextPipeline]_vars

\* ------------------------------------------------------------------------
\* Properties
\* ------------------------------------------------------------------------
shows(w, body) == \E i \in 1..Len(ui) : ui[i] = widget(w, body)

ValidationError == widget("sidebar.error", <<"start must be before end">>)
TickerHint == widget("info", <<"check the ticker format">>)
UsageHelp ==
    <<widget("info", <<"enter a ticker in the sidebar">>), widget("markdown", <<"usage">>)>>

NothingRendered ==
    /\ ~shown("header")
    /\ ~shown("metric")
    /\ ~shown("plotly_chart")
    /\ ~shown("dataframe")
    /\ ~shown("download_button")
    /\ is_None(display_data_sorted)
    /\ csv = NoCsv
    /\ file_name = <<>>

PastWarning == pc \in {"main", "fetch", "branch", "chart", "ma", "table", "download", "done"}

\* C1: a run is halted by the date validation if and only if start >= end;
\* a halted run shows the validation error and nothing else (no fetch, no
\* statistics, chart, table or download); a run that is not halted shows the
\* future-date warning exactly when end > today, and goes on.
C1_ValidationHaltsIffStartNotBeforeEnd ==
    /\ stopped => pc = "done"
    /\ pc = "done" => (stopped <=> start_date >= end_date)
    /\ pc \notin {"idle", "validate", "done"} => start_date < end_date
    /\ stopped => /\ ui = <<ValidationError>>
                  /\ fetch_calls = 0
                  /\ history_calls = 0
                  /\ is_None(data)
                  /\ NothingRendered
    /\ (PastWarning /\ ~stopped) => (shown("sidebar.warning") <=> end_date > today)

C1_HaltedWithFutureEnd ==
    /\ pc = "done"
    /\ stopped
    /\ end_date > today
    /\ ui = <<ValidationError>>

SameFrame(a, b) == [a EXCEPT !.oid = "any"] = [b EXCEPT !.oid = "any"]

\* C2: a call of get_stock_data whose key had a provider call less than ttl
\* ago calls the provider no more and returns what that call gave, an error
\* as well as a series; a call whose key had none within ttl calls the
\* provider once.
C2_OneProviderCallPerKeyWithinTtl ==
    [][(pc = "fetch" /\ pc' = "branch") =>
          LET key == cache_key(ticker_symbol, start_date, end_date)
          IN  IF key \in DOMAIN fetched /\ fetched[key].age < ttl
              THEN /\ history_calls' = history_calls
                   /\ info_calls' = info_calls
                   /\ SameFrame(data', fetched[key].data)
                   /\ result' = fetched[key].result
              ELSE history_calls' = history_calls + 1]_vars

C2_ErrorServedFromCacheLater ==
    /\ pc = "branch"
    /\ cache_hit
    /\ is_None(data)
    /\ history_calls = 0
    /\ cache_key(ticker_symbol, start_date, end_date) \in DOMAIN fetched
    /\ fetched[cache_key(ticker_symbol, start_date, end_date)].age > 0

IsErrorMessage(r) ==
    /\ r.type = "str"
    /\ \/ r.text = NoDataMessage
       \/ Len(r.text) > 1 /\ SubSeq(r.text, 1, 1) = FetchErrorPrefix

C4_ErrorOutcomeShowsErrorOnly ==
    (pc \in {"branch", "done"} /\ fetch_calls >= 1 /\ is_None(data)) =>
        /\ fetch_calls = 1
        /\ history_calls <= 1
        /\ NothingRendered
        /\ pc = "done" =>
              /\ shows("error", result.text)
              /\ shows("info", <<"check the ticker format">>)
              /\ Len(ui) >= 2
              /\ SubSeq(ui, Len(ui) - 1, Len(ui)) = <<widget("error", result.text), TickerHint>>

C4_NoDataErrorShown ==
    /\ pc = "done"
    /\ fetch_calls = 1
    /\ is_None(data)
    /\ result = Str(NoDataMessage)
    /\ shows("error", NoDataMessage)

RatMul(a, b) == IF a.nan \/ b.nan THEN NaN ELSE Rat(a.num * b.num, a.den * b.den)

StatsDone == pc \in {"chart", "ma", "table", "download", "done"} /\ ~is_None(data)

\* C5: with at least 2 rows, change = close[last] - close[last-1] and
\* changePct times close[last-1] = change times 100; with 1 row both are 0.
C5_ChangeAndPercent ==
    StatsDone =>
        LET close == data.values["Close"]
            n == Len(close)
        IN  /\ n >= 2 =>
                  /\ ~price_change.nan
                  /\ ~price_change_pct.nan
                  /\ RatAdd(price_change, close[n - 1]) = close[n]
                  /\ RatMul(price_change_pct, close[n - 1]) = RatMulInt(price_change, 100)
            /\ n = 1 =>
                  /\ price_change = Zero
                  /\ price_change_pct = Zero

C5_ScenarioOfFiveCloses ==
    /\ StatsDone
    /\ [i \in 1..len(data) |-> data.values["Close"][i]] =
          <<Rat(100, 1), Rat(102, 1), Rat(101, 1), Rat(105, 1), Rat(107, 1)>>
    /\ price_change = Rat(2, 1)
    /\ round(price_change_pct, 2) = Rat(190, 100)

AveragesDone == pc \in {"table", "download", "done"} /\ ~is_None(data)

MAIsTrailingMean(col, n) ==
    LET close == data.values["Close"]
        ma == data.values[col]
    IN  /\ Len(ma) = Len(close)
        /\ \A i \in 1..Len(close) :
              \* row i is the row of 0-based index i - 1
              /\ ~ma[i].nan <=> i - 1 >= n - 1
              /\ i - 1 >= n - 1 =>
                    RatMulInt(ma[i], n) = RatSum(SubSeq(close, i - n + 1, i))

\* C6: MA5 and MA25 are defined at the row of 0-based index i exactly when
\* i >= 4 and i >= 24, and are then the mean of the n closes ending at row i;
\* so 5 rows have MA5 at the last row only and MA25 nowhere.
C6_MovingAverages ==
    AveragesDone =>
        /\ MAIsTrailingMean("MA5", 5)
        /\ MAIsTrailingMean("MA25", 25)
        /\ len(data) = 5 =>
              /\ \A i \in 1..5 : data.values["MA5"][i].nan <=> i < 5
              /\ \A i \in 1..5 : data.values["MA25"][i].nan

C6_LongSeriesHasBothAverages ==
    /\ AveragesDone
    /\ len(data) > 25
    /\ data.values["MA5"][4].nan
    /\ ~data.values["MA5"][5].nan
    /\ data.values["MA25"][24].nan
    /\ ~data.values["MA25"][25].nan
    /\ data.values["MA25"][25] # data.values["MA25"][26]

StrictlyDescending(s) == \A i \in 1..(Len(s) - 1) : s[i] > s[i + 1]
StrictlyAscending(s) == \A i \in 1..(Len(s) - 1) : s[i] < s[i + 1]

ExportColumns ==
    <<"Date", "Hajimene", "Takane", "Yasune", "Owarine", "Dekidaka",
      "5-nichi idou heikin", "25-nichi idou heikin">>

\* C7: after a successful fetch the CSV has exactly the columns date, open,
\* high, low, close, volume, MA5, MA25 under their labels, its rows are in
\* strictly descending date order, and the file is {ticker}_{start}_to_{end}.csv.
C7_CsvColumnsOrderAndName ==
    (pc = "done" /\ shown("download_button")) =>
        /\ csv.header = ExportColumns
        /\ StrictlyDescending(csv.dates)
        /\ file_name = ticker_symbol \o <<"_">> \o isoformat(start_date)
                          \o <<"_to_">> \o isoformat(end_date) \o <<".csv">>

DisplayLabels == {Labels[k] : k \in DOMAIN Labels}

\* C8: the table step leaves data as it was: rows in ascending date order,
\* the internal column names, the values not rounded.
C8_PresentationWorksOnACopy ==
    [][(pc = "table" /\ pc' = "download") =>
          /\ StrictlyAscending(data'.index)
          /\ Range(data'.columns) \cap DisplayLabels = {}
          /\ data'.columns = data.columns
          /\ data'.index = data.index
          /\ data'.values = data.values]_vars

C8_TableDiffersFromData ==
    /\ pc = "download"
    /\ len(data) >= 2
    /\ "Adj Close" \in Range(data.columns)
    /\ "Adj Close" \notin Range(display_data_sorted.columns)
    /\ display_data_sorted.index # data.index
    /\ StrictlyDescending(display_data_sorted.index)
    /\ display_data.values["Owarine"] # data.values["Close"]

\* C9: an entry of the cache keeps the value it was created with until it
\* expires, and a hit gives the series as it was fetched, without the MA5 and
\* MA25 columns an earlier run added to the series it had received.
C9_CachedResultNeverMutated ==
    [][/\ \A k \in DOMAIN cache \cap DOMAIN cache' :
             cache'[k].age >= cache[k].age =>
                /\ cache'[k].data = cache[k].data
                /\ cache'[k].result = cache[k].result
       /\ (pc = "fetch" /\ pc' = "branch" /\ cache_hit' /\ ~is_None(data')) =>
             /\ Range(data'.columns) \cap {"MA5", "MA25"} = {}
             /\ SameFrame(data', fetched[cache_key(ticker_symbol, start_date, end_date)].data)]_vars

C9_HitAfterAveragesWereAdded ==
    /\ cache_hit
    /\ pc = "branch"
    /\ ~is_None(data)
    /\ cache_key(ticker_symbol, start_date, end_date) \in DOMAIN cache
    /\ cache[cache_key(ticker_symbol, start_date, end_date)].age > 0
    /\ Range(data.columns) \cap {"MA5", "MA25"} = {}

HasNonSpace(raw) == \E i \in 1..Len(raw) : raw[i] # " "

NotWarning(w) == w.widget # "sidebar.warning"

\* C10: a run calls get_stock_data at most once, and a finished run has called
\* it exactly when start < end and the typed ticker has a character that is not
\* a space; with valid dates and no such character the run shows the usage
\* help only.
C10_FetchOnceIffValidInputs ==
    /\ fetch_calls <= 1
    /\ pc = "done" =>
          (fetch_calls = 1 <=> (start_date < end_date /\ HasNonSpace(ticker_input)))
    /\ (pc = "done" /\ start_date < end_date /\ ~HasNonSpace(ticker_input)) =>
          /\ SelectSeq(ui, NotWarning) = UsageHelp
          /\ fetch_calls = 0
          /\ history_calls = 0
          /\ is_None(data)
          /\ NothingRendered

C10_BlankTickerShowsUsage ==
    /\ pc = "done"
    /\ start_date < end_date
    /\ ticker_input = <<" ">>
    /\ SelectSeq(ui, NotWarning) = UsageHelp

====
